---- MODULE Spec2Model ----
(***************************************************************************)
(* txt2sub: subscription links -> proxy model -> Clash configuration.      *)
(*                                                                         *)
(* Text.  A Rust String is modelled as a sequence of atoms.  An atom is    *)
(* either one of the delimiter characters the code searches for            *)
(* ("#" "?" "&" "=" "@" ":" "/" "[" "]" "," " " and, in JSON text, "{" "}" *)
(* and the double quote) or a run of text that holds none of them.  The    *)
(* scheme prefix of a link ("vless://", ...) is one atom.  The empty       *)
(* String is << >>.  Option<T> is << >> for None and << x >> for Some(x).  *)
(***************************************************************************)
EXTENDS Naturals, Sequences, FiniteSets, TLC

VARIABLES
    pc,             \* position of the call being modelled
    links,          \* generate_clash_yaml: links argument
    extra_proxies,  \* generate_clash_yaml: extra_proxies argument
    template,       \* generate_clash_yaml: template argument (Option<String>)
    proxies,        \* generate_clash_yaml: local `proxies` after both loops
    proxy_names,    \* generate_clash_yaml: local `proxy_names` after both loops
    result,         \* generate_clash_yaml: the returned Result<String>
    link,           \* a decoder's argument
    decoded,        \* a decoder's returned Option<Proxy>
    content,        \* parse_wireguard: the block, as its lines
    wg              \* parse_wireguard: the returned Option<Proxy>

vars == <<pc, links, extra_proxies, template, proxies, proxy_names, result,
          link, decoded, content, wg>>

----------------------------------------------------------------------------
(* Option and string helpers                                               *)

None == << >>
Some(x) == << x >>
IsSome(o) == o # << >>
UnwrapOr(o, d) == IF o = << >> THEN d ELSE o[1]

\* A one-atom string literal.
Str(a) == << a >>

Before(s, i) == SubSeq(s, 1, i - 1)
After(s, i) == SubSeq(s, i + 1, Len(s))

\* str::find: the first position of atom t in s, 0 when there is none.
IndexOf(s, t) ==
    IF \E i \in 1..Len(s) : s[i] = t
    THEN CHOOSE i \in 1..Len(s) : s[i] = t /\ \A j \in 1..(i - 1) : s[j] # t
    ELSE 0

\* str::rfind: the last position of atom t in s, 0 when there is none.
LastIndexOf(s, t) ==
    IF \E i \in 1..Len(s) : s[i] = t
    THEN CHOOSE i \in 1..Len(s) : s[i] = t /\ \A j \in (i + 1)..Len(s) : s[j] # t
    ELSE 0

Contains(s, t) == \E i \in 1..Len(s) : s[i] = t
StartsWith(s, t) == Len(s) > 0 /\ s[1] = t
EndsWith(s, t) == Len(s) > 0 /\ s[Len(s)] = t

\* str::split(t): the pieces between the occurrences of t (one piece, the
\* whole string, when t does not occur; the empty string gives one empty piece).
RECURSIVE Split(_, _)
Split(s, t) ==
    LET i == IndexOf(s, t)
    IN  IF i = 0 THEN << s >>
        ELSE << Before(s, i) >> \o Split(After(s, i), t)

\* str::splitn(2, t): at most two pieces, cut at the first t.
SplitN2(s, t) ==
    LET i == IndexOf(s, t)
    IN  IF i = 0 THEN << s >> ELSE << Before(s, i), After(s, i) >>

\* str::trim_start_matches(p): every leading repetition of p is removed.
RECURSIVE TrimStartMatches(_, _)
TrimStartMatches(s, p) ==
    IF StartsWith(s, p) THEN TrimStartMatches(Tail(s), p) ELSE s

\* str::trim: leading and trailing whitespace removed.
RECURSIVE TrimStart(_)
TrimStart(s) == IF StartsWith(s, " ") THEN TrimStart(Tail(s)) ELSE s
RECURSIVE TrimEnd(_)
TrimEnd(s) == IF EndsWith(s, " ") THEN TrimEnd(SubSeq(s, 1, Len(s) - 1)) ELSE s
Trim(s) == TrimEnd(TrimStart(s))

\* str::to_lowercase, atom by atom: the atoms with upper-case letters that
\* occur in the inputs, every other atom is already lower case.
LowerAtom(a) ==
    CASE a = "PrivateKey" -> "privatekey"
      [] a = "PRIVATEKEY" -> "privatekey"
      [] a = "Address" -> "address"
      [] a = "MTU" -> "mtu"
      [] a = "PublicKey" -> "publickey"
      [] a = "Endpoint" -> "endpoint"
      [] a = "AllowedIPs" -> "allowedips"
      [] a = "PresharedKey" -> "presharedkey"
      [] a = "Interface" -> "interface"
      [] a = "INTERFACE" -> "interface"
      [] a = "Peer" -> "peer"
      [] a = "PEER" -> "peer"
      [] OTHER -> a
ToLowercase(s) == [i \in 1..Len(s) |-> LowerAtom(s[i])]

----------------------------------------------------------------------------
(* Numbers: str::parse::<u16> and str::parse::<u32>                        *)

U16Max == 65535

\* The decimal numerals that occur in the inputs, with their values.
Numerals == {"0", "80", "443", "1420", "8388", "51820", "65535", "65536", "70000"}
NumeralValue(a) ==
    CASE a = "0" -> 0
      [] a = "80" -> 80
      [] a = "443" -> 443
      [] a = "1420" -> 1420
      [] a = "8388" -> 8388
      [] a = "51820" -> 51820
      [] a = "65535" -> 65535
      [] a = "65536" -> 65536
      [] a = "70000" -> 70000

ParseUnsigned(s, max) ==
    IF Len(s) = 1 /\ s[1] \in Numerals /\ NumeralValue(s[1]) <= max
    THEN Some(NumeralValue(s[1]))
    ELSE None
ParseU16(s) == ParseUnsigned(s, U16Max)
\* Every numeral of the inputs is below 2^32.
ParseU32(s) == IF Len(s) = 1 /\ s[1] \in Numerals THEN Some(NumeralValue(s[1])) ELSE None

----------------------------------------------------------------------------
(* base64: general_purpose::STANDARD.decode followed by String::from_utf8. *)
(* Every text atom has one encoded atom; the encoded atoms are disjoint    *)
(* from the text atoms and from the delimiters, so text that was not       *)
(* encoded does not decode.                                                *)

B64Atom ==
    [a \in {"aes", "pw", "h", "1.2.3.4", "u", "N", "ws", "tls", "/p",
            "8388", "443", "70000", "abc", ":", "@", ",", "{", "}", "\"",
            "ps", "add", "port", "id", "aid", "net", "host", "path",
            "x", "p", "w", "0", "80", "65535", "65536", "none"}
       |-> CASE a = "aes" -> "b64(aes)"
             [] a = "pw" -> "b64(pw)"
             [] a = "h" -> "b64(h)"
             [] a = "1.2.3.4" -> "b64(1.2.3.4)"
             [] a = "u" -> "b64(u)"
             [] a = "N" -> "b64(N)"
             [] a = "ws" -> "b64(ws)"
             [] a = "tls" -> "b64(tls)"
             [] a = "/p" -> "b64(/p)"
             [] a = "8388" -> "b64(8388)"
             [] a = "443" -> "b64(443)"
             [] a = "70000" -> "b64(70000)"
             [] a = "abc" -> "b64(abc)"
             [] a = ":" -> "b64(:)"
             [] a = "@" -> "b64(@)"
             [] a = "," -> "b64(,)"
             [] a = "{" -> "b64({)"
             [] a = "}" -> "b64(})"
             [] a = "\"" -> "b64(quote)"
             [] a = "ps" -> "b64(ps)"
             [] a = "add" -> "b64(add)"
             [] a = "port" -> "b64(port)"
             [] a = "id" -> "b64(id)"
             [] a = "aid" -> "b64(aid)"
             [] a = "net" -> "b64(net)"
             [] a = "host" -> "b64(host)"
             [] a = "path" -> "b64(path)"
             [] a = "x" -> "b64(x)"
             [] a = "p" -> "b64(p)"
             [] a = "w" -> "b64(w)"
             [] a = "0" -> "b64(0)"
             [] a = "80" -> "b64(80)"
             [] a = "65535" -> "b64(65535)"
             [] a = "65536" -> "b64(65536)"
             [] a = "none" -> "b64(none)"]

B64Encode(s) == [i \in 1..Len(s) |-> B64Atom[s[i]]]

IsB64Atom(e) == \E a \in DOMAIN B64Atom : B64Atom[a] = e
B64DecodeAtom(e) == CHOOSE a \in DOMAIN B64Atom : B64Atom[a] = e

\* Ok(text) when every atom of s is an encoded atom, Err (None) otherwise.
B64Decode(s) ==
    IF \A i \in 1..Len(s) : IsB64Atom(s[i])
    THEN Some([i \in 1..Len(s) |-> B64DecodeAtom(s[i])])
    ELSE None

----------------------------------------------------------------------------
(* serde_json::from_str and Value indexing, as parse_vmess uses them.      *)
(* JSON text is { "k" : v , "k" : v } with v a quoted string or a bare     *)
(* scalar; a parsed object is the sequence of its members.                 *)

Quote == "\""

JsonMember(m) ==
    LET kv == SplitN2(m, ":")
        k == kv[1]
        v == kv[2]
    IN  IF Len(kv) # 2 \/ Len(k) # 3 \/ k[1] # Quote \/ k[3] # Quote THEN None
        ELSE IF Len(v) >= 2 /\ v[1] = Quote /\ v[Len(v)] = Quote
             THEN Some([key |-> k[2], is_str |-> TRUE, val |-> SubSeq(v, 2, Len(v) - 1)])
        ELSE IF Len(v) = 1
             THEN Some([key |-> k[2], is_str |-> FALSE, val |-> v])
        ELSE None

\* Ok(members) or Err (None).
JsonFromStr(text) ==
    IF Len(text) < 2 \/ text[1] # "{" \/ text[Len(text)] # "}" THEN None
    ELSE LET body == SubSeq(text, 2, Len(text) - 1)
             parts == IF body = << >> THEN << >> ELSE Split(body, ",")
             ms == [i \in 1..Len(parts) |-> JsonMember(parts[i])]
         IN  IF \E i \in 1..Len(ms) : ms[i] = None THEN None
             ELSE Some([i \in 1..Len(ms) |-> ms[i][1]])

\* v[key].as_str(): the string value of the last member named key.
JsonStr(obj, key) ==
    LET hits == {i \in 1..Len(obj) : obj[i].key = key}
    IN  IF hits = {} THEN None
        ELSE LET m == obj[CHOOSE i \in hits : \A j \in hits : j <= i]
             IN  IF m.is_str THEN Some(m.val) ELSE None

----------------------------------------------------------------------------
(* url::Url::parse and the accessors the decoders use (host_str, port,     *)
(* username, fragment, query_pairs), for a link scheme://authority...      *)

Schemes == {"vless://", "vmess://", "hy2://", "hysteria2://", "trojan://",
            "ss://", "tuic://", "vles://", "http://"}

\* form_urlencoded::parse: name=value pieces separated by "&".
QueryPairs(q) ==
    LET pieces == SelectSeq(Split(q, "&"), LAMBDA p : p # << >>)
    IN  [i \in 1..Len(pieces) |->
            LET kv == SplitN2(pieces[i], "=")
            IN  << kv[1], IF Len(kv) = 2 THEN kv[2] ELSE << >> >>]

\* HashMap::get after collect(): the last pair named key wins.
QueryGet(pairs, key) ==
    LET hits == {i \in 1..Len(pairs) : pairs[i][1] = Str(key)}
    IN  IF hits = {} THEN None
        ELSE Some(pairs[CHOOSE i \in hits : \A j \in hits : j <= i][2])

\* The cut of s at its first atom t: found, the part before (all of s when
\* t does not occur) and the part after.
CutFirst(s, t) ==
    [found |-> IndexOf(s, t) # 0,
     head |-> IF IndexOf(s, t) = 0 THEN s ELSE Before(s, IndexOf(s, t)),
     tail |-> IF IndexOf(s, t) = 0 THEN << >> ELSE After(s, IndexOf(s, t))]

\* The cut of an authority at its last "@": userinfo before, host:port after.
CutUserinfo(authority) ==
    [found |-> LastIndexOf(authority, "@") # 0,
     head |-> IF LastIndexOf(authority, "@") = 0 THEN << >>
              ELSE Before(authority, LastIndexOf(authority, "@")),
     tail |-> IF LastIndexOf(authority, "@") = 0 THEN authority
              ELSE After(authority, LastIndexOf(authority, "@"))]

\* f: the cut at "#", q: the cut at "?", a: the cut at "@", u: the userinfo
\* cut at ":", hp: host:port cut at ":".  A port that is no 16-bit number
\* and an empty host with credentials or a port are parse errors.
UrlAssemble(f, q, a, u, hp) ==
    IF hp.tail # << >> /\ ParseU16(hp.tail) = None THEN None
    ELSE IF hp.head = << >> /\ (a.found \/ hp.found) THEN None
    ELSE Some([username |-> u.head,
               password |-> u.tail,
               host_str |-> IF hp.head = << >> THEN None ELSE Some(hp.head),
               port |-> ParseU16(hp.tail),
               query |-> QueryPairs(q.tail),
               fragment |-> IF f.found THEN Some(f.tail) ELSE None])

UrlAuthority(f, q, a) ==
    UrlAssemble(f, q, a, CutFirst(a.head, ":"), CutFirst(a.tail, ":"))

UrlQueryPart(f, q) == UrlAuthority(f, q, CutUserinfo(CutFirst(q.head, "/").head))

UrlFragmentPart(f) == UrlQueryPart(f, CutFirst(f.head, "?"))

UrlParse(l) ==
    IF Len(l) = 0 \/ l[1] \notin Schemes THEN None
    ELSE UrlFragmentPart(CutFirst(Tail(l), "#"))

----------------------------------------------------------------------------
(* Link decoders: &str -> Option<Proxy>.  A Proxy is a record whose `type` *)
(* field is the variant's serde tag.                                       *)

\* |s| s == "1" || s == "true"
IsTrueFlag(s) == s = Str("1") \/ s = Str("true")

\* Option::map
MapOpt(o, F(_)) == IF o = << >> THEN None ELSE Some(F(o[1]))

\* RealityOptsOf with the block attached for every security mode.
RealityOptsAnySecurity(security, query) ==
    IF security # None
    THEN Some([public_key |-> UnwrapOr(QueryGet(query, "pbk"), << >>),
               short_id |-> UnwrapOr(QueryGet(query, "sid"), << >>)])
    ELSE None

\* The reality-opts block of parse_vless and parse_trojan.
RealityOptsOf(security, query) ==
    IF security = Some(Str("reality"))
    THEN Some([public_key |-> UnwrapOr(QueryGet(query, "pbk"), << >>),
               short_id |-> UnwrapOr(QueryGet(query, "sid"), << >>)])
    ELSE None

\* The transport network parse_vless attaches.
VlessNetwork(type_, security) ==
    IF type_ = Some(Str("tcp")) /\ security = Some(Str("reality"))
    THEN Some(Str("tcp"))
    ELSE type_

VlessWsOpts(network, query, sni, server) ==
    IF network = Some(Str("ws"))
    THEN Some([path |-> UnwrapOr(QueryGet(query, "path"), Str("/")),
               headers |-> Some(<< << "Host", UnwrapOr(sni, server) >> >>)])
    ELSE None

VlessGrpcOpts(network, query) ==
    IF network = Some(Str("grpc"))
    THEN Some([grpc_service_name |-> UnwrapOr(QueryGet(query, "serviceName"), << >>)])
    ELSE None

VlessFromUrl(url, query, security, type_, sni) ==
    IF url.host_str = None THEN None
    ELSE IF url.port = None THEN None
    ELSE Some([type |-> "vless",
               name |-> UnwrapOr(url.fragment, Str("VLESS Node")),
               server |-> url.host_str[1],
               port |-> url.port[1],
               uuid |-> url.username,
               flow |-> QueryGet(query, "flow"),
               udp |-> Some(TRUE),
               tls |-> Some(IsSome(security)),
               skip_cert_verify |->
                   IF UnwrapOr(MapOpt(QueryGet(query, "allowInsecure"), IsTrueFlag), FALSE)
                   THEN Some(TRUE) ELSE None,
               servername |-> sni,
               network |-> VlessNetwork(type_, security),
               client_fingerprint |-> QueryGet(query, "fp"),
               reality_opts |-> RealityOptsOf(security, query),
               ws_opts |-> VlessWsOpts(VlessNetwork(type_, security), query, sni,
                                       url.host_str[1]),
               grpc_opts |-> VlessGrpcOpts(VlessNetwork(type_, security), query)])

VlessFromParsed(parsed) ==
    IF parsed = None THEN None
    ELSE VlessFromUrl(parsed[1], parsed[1].query,
                      QueryGet(parsed[1].query, "security"),
                      QueryGet(parsed[1].query, "type"),
                      QueryGet(parsed[1].query, "sni"))

parse_vless(l) == VlessFromParsed(UrlParse(l))

\* VmessWsOpts with the block attached whatever the network.
VmessWsOptsAlways(net, path, host) ==
    Some([path |-> IF path = << >> THEN Str("/") ELSE path,
          headers |-> IF host # << >> THEN Some(<< << "Host", host >> >>) ELSE None])

VmessWsOpts(net, path, host) ==
    IF net = Str("ws")
    THEN Some([path |-> IF path = << >> THEN Str("/") ELSE path,
               headers |-> IF host # << >> THEN Some(<< << "Host", host >> >>) ELSE None])
    ELSE None

\* The fields read from the parsed JSON value v.
VmessFromJson(v) ==
    LET port == IF JsonStr(v, "port") = None THEN None
                ELSE ParseU16(JsonStr(v, "port")[1])
        aid == IF JsonStr(v, "aid") = None THEN 0
               ELSE UnwrapOr(ParseU16(JsonStr(v, "aid")[1]), 0)
        net == UnwrapOr(JsonStr(v, "net"), Str("tcp"))
        host == UnwrapOr(JsonStr(v, "host"), << >>)
        path == UnwrapOr(JsonStr(v, "path"), << >>)
        tls_str == UnwrapOr(JsonStr(v, "tls"), << >>)
    IN  IF JsonStr(v, "add") = None \/ port = None \/ JsonStr(v, "id") = None THEN None
        ELSE Some([type |-> "vmess",
                   name |-> UnwrapOr(JsonStr(v, "ps"), Str("VMess Node")),
                   server |-> JsonStr(v, "add")[1],
                   port |-> port[1],
                   uuid |-> JsonStr(v, "id")[1],
                   alter_id |-> aid,
                   cipher |-> Str("auto"),
                   udp |-> Some(TRUE),
                   tls |-> IF tls_str = Str("tls") THEN Some(TRUE) ELSE None,
                   skip_cert_verify |-> Some(TRUE),
                   servername |-> IF host # << >> THEN Some(host) ELSE None,
                   network |-> Some(net),
                   ws_opts |-> VmessWsOpts(net, path, host)])

VmessFromParsed(parsed) == IF parsed = None THEN None ELSE VmessFromJson(parsed[1])

VmessFromDecoded(json_str) ==
    IF json_str = None THEN None ELSE VmessFromParsed(JsonFromStr(json_str[1]))

parse_vmess(l) == VmessFromDecoded(B64Decode(TrimStartMatches(l, "vmess://")))

Hy2FromUrl(url, query) ==
    IF url.host_str = None THEN None
    ELSE IF url.port = None THEN None
    ELSE Some([type |-> "hysteria2",
               name |-> UnwrapOr(url.fragment, Str("Hy2 Node")),
               server |-> url.host_str[1],
               port |-> url.port[1],
               password |-> url.username,
               sni |-> QueryGet(query, "sni"),
               skip_cert_verify |-> Some(TRUE),
               obfs |-> QueryGet(query, "obfs"),
               obfs_password |-> QueryGet(query, "obfs-password")])

Hy2FromParsed(parsed) ==
    IF parsed = None THEN None ELSE Hy2FromUrl(parsed[1], parsed[1].query)

parse_hy2(l) == Hy2FromParsed(UrlParse(l))

TrojanFromUrl(url, query) ==
    IF url.host_str = None THEN None
    ELSE IF url.port = None THEN None
    ELSE Some([type |-> "trojan",
               name |-> UnwrapOr(url.fragment, Str("Trojan Node")),
               server |-> url.host_str[1],
               port |-> url.port[1],
               password |-> url.username,
               udp |-> Some(TRUE),
               tls |-> Some(TRUE),
               skip_cert_verify |-> Some(TRUE),
               servername |-> QueryGet(query, "sni"),
               network |-> None,
               client_fingerprint |-> QueryGet(query, "fp"),
               flow |-> QueryGet(query, "flow"),
               reality_opts |-> RealityOptsOf(QueryGet(query, "security"), query)])

TrojanFromParsed(parsed) ==
    IF parsed = None THEN None ELSE TrojanFromUrl(parsed[1], parsed[1].query)

parse_trojan(l) == TrojanFromParsed(UrlParse(l))

\* SsSplitName cutting at the last "#" instead of the first.
SsSplitNameLast(config_part) ==
    LET pos == LastIndexOf(config_part, "#")
    IN  IF pos # 0
        THEN << After(config_part, pos), Before(config_part, pos) >>
        ELSE << Str("Shadowsocks Node"), config_part >>

\* The name / config split of parse_ss: << name_part, config_part >>.
SsSplitName(config_part) ==
    LET pos == IndexOf(config_part, "#")
    IN  IF pos # 0
        THEN << After(config_part, pos), Before(config_part, pos) >>
        ELSE << Str("Shadowsocks Node"), config_part >>

\* parts: the decoded text split at "@"; method_pass and server_port: its two
\* sides, each cut at its first ":".
SsFromParts(name_part, method_pass, server_port) ==
    IF Len(method_pass) # 2 THEN None
    ELSE IF Len(server_port) # 2 THEN None
    ELSE IF ParseU16(server_port[2]) = None THEN None
    ELSE Some([type |-> "ss",
               name |-> name_part,
               server |-> server_port[1],
               port |-> ParseU16(server_port[2])[1],
               password |-> method_pass[2],
               cipher |-> method_pass[1],
               udp |-> Some(TRUE),
               network |-> None,
               plugin |-> None,
               plugin_opts |-> None])

\* SsFromText taking the first two "@"-separated pieces of a longer text.
SsFromTextLoose(name_part, parts) ==
    IF Len(parts) < 2 THEN None
    ELSE SsFromParts(name_part, SplitN2(parts[1], ":"), SplitN2(parts[2], ":"))

SsFromText(name_part, parts) ==
    IF Len(parts) # 2 THEN None
    ELSE SsFromParts(name_part, SplitN2(parts[1], ":"), SplitN2(parts[2], ":"))

SsFromDecoded(name_part, decoded_str) ==
    IF decoded_str = None THEN None
    ELSE SsFromText(name_part, Split(decoded_str[1], "@"))

SsFromSplit(split) == SsFromDecoded(split[1], B64Decode(split[2]))

parse_ss(l) == SsFromSplit(SsSplitName(TrimStartMatches(l, "ss://")))

TuicFromUrl(url, query, userinfo_parts) ==
    IF url.host_str = None THEN None
    ELSE IF url.port = None THEN None
    ELSE Some([type |-> "tuic",
               name |-> UnwrapOr(url.fragment, Str("TUIC Node")),
               server |-> url.host_str[1],
               port |-> url.port[1],
               password |-> IF Len(userinfo_parts) >= 2 THEN userinfo_parts[2] ELSE << >>,
               uuid |-> userinfo_parts[1],
               udp |-> Some(TRUE),
               tls |-> Some(TRUE),
               skip_cert_verify |-> MapOpt(QueryGet(query, "insecure"), IsTrueFlag),
               servername |-> QueryGet(query, "sni"),
               alpn |-> IF QueryGet(query, "alpn") = None THEN None
                        ELSE Some(Split(QueryGet(query, "alpn")[1], ",")),
               congestion_controller |-> QueryGet(query, "congestion_control"),
               zero_rtt |-> MapOpt(QueryGet(query, "zero_rtt"), IsTrueFlag)])

\* userinfo_parts: url.username() split at its first ":".
TuicFromParsed(parsed) ==
    IF parsed = None THEN None
    ELSE TuicFromUrl(parsed[1], parsed[1].query, SplitN2(parsed[1].username, ":"))

parse_tuic(l) == TuicFromParsed(UrlParse(l))

----------------------------------------------------------------------------
(* parse_wireguard: the block is the sequence of its lines (str::lines).   *)

DefaultWgPort == 51820

\* The locals before the first line.
WgStart ==
    [current_section |-> << >>,
     private_key |-> None, ip |-> None, ipv6 |-> None, mtu |-> None,
     public_key |-> None, endpoint |-> None, allowed_ips |-> << >>,
     pre_shared_key |-> None]

\* The Address arm: each comma-separated item, CIDR suffix dropped, sets the
\* IPv6 address when it holds ":" and the IPv4 address otherwise.
RECURSIVE WgAddress(_, _)
WgAddress(st, addrs) ==
    IF addrs = << >> THEN st
    ELSE LET addr == Trim(Head(addrs))
             ip_part == Split(addr, "/")[1]
             st1 == IF Contains(ip_part, ":")
                    THEN [st EXCEPT !.ipv6 = Some(ip_part)]
                    ELSE [st EXCEPT !.ip = Some(ip_part)]
         IN  WgAddress(st1, Tail(addrs))

\* allowed_ips = value.split(',').map(|s| s.trim().to_string()).collect()
WgAllowedIps(value) ==
    LET items == Split(value, ",")
    IN  [i \in 1..Len(items) |-> Trim(items[i])]

WgInterfaceKey(st, key, value) ==
    CASE key = Str("privatekey") -> [st EXCEPT !.private_key = Some(value)]
      [] key = Str("address") -> WgAddress(st, Split(value, ","))
      [] key = Str("mtu") -> [st EXCEPT !.mtu = ParseU32(value)]
      [] OTHER -> st

\* WgPeerKey reading the [Interface] keys as well.
WgPeerOrInterfaceKey(st, key, value) ==
    CASE key = Str("publickey") -> [st EXCEPT !.public_key = Some(value)]
      [] key = Str("endpoint") -> [st EXCEPT !.endpoint = Some(value)]
      [] key = Str("allowedips") -> [st EXCEPT !.allowed_ips = WgAllowedIps(value)]
      [] key = Str("presharedkey") -> [st EXCEPT !.pre_shared_key = Some(value)]
      [] OTHER -> WgInterfaceKey(st, key, value)

WgPeerKey(st, key, value) ==
    CASE key = Str("publickey") -> [st EXCEPT !.public_key = Some(value)]
      [] key = Str("endpoint") -> [st EXCEPT !.endpoint = Some(value)]
      [] key = Str("allowedips") -> [st EXCEPT !.allowed_ips = WgAllowedIps(value)]
      [] key = Str("presharedkey") -> [st EXCEPT !.pre_shared_key = Some(value)]
      [] OTHER -> st

\* WgLine taking a line only when it holds exactly one "=".
WgLineOneEquals(st, raw) ==
    LET line == Trim(raw)
    IN  IF line = << >> \/ StartsWith(line, "#") THEN st
        ELSE IF StartsWith(line, "[") /\ EndsWith(line, "]")
        THEN [st EXCEPT !.current_section = SubSeq(line, 2, Len(line) - 1)]
        ELSE LET parts == Split(line, "=")
             IN  IF Len(parts) # 2 THEN st
                 ELSE LET key == ToLowercase(Trim(parts[1]))
                          value == Trim(parts[2])
                          section == ToLowercase(st.current_section)
                      IN  CASE section = Str("interface") -> WgInterfaceKey(st, key, value)
                            [] section = Str("peer") -> WgPeerKey(st, key, value)
                            [] OTHER -> st

\* One iteration of the loop over the lines.
WgLine(st, raw) ==
    LET line == Trim(raw)
    IN  IF line = << >> \/ StartsWith(line, "#") THEN st
        ELSE IF StartsWith(line, "[") /\ EndsWith(line, "]")
        THEN [st EXCEPT !.current_section = SubSeq(line, 2, Len(line) - 1)]
        ELSE LET parts == SplitN2(line, "=")
             IN  IF Len(parts) # 2 THEN st
                 ELSE LET key == ToLowercase(Trim(parts[1]))
                          value == Trim(parts[2])
                          section == ToLowercase(st.current_section)
                      IN  CASE section = Str("interface") -> WgInterfaceKey(st, key, value)
                            [] section = Str("peer") -> WgPeerKey(st, key, value)
                            [] OTHER -> st

RECURSIVE WgLines(_, _)
WgLines(st, ls) == IF ls = << >> THEN st ELSE WgLines(WgLine(st, Head(ls)), Tail(ls))

\* The validation after the loop: TRUE when the function returns None.
WgRejected(st) ==
    st.private_key = None \/ st.public_key = None \/ st.endpoint = None \/ st.ip = None

\* << server, port >> of an Endpoint value.
WgEndpoint(endpoint_str) ==
    LET idx == LastIndexOf(endpoint_str, ":")
    IN  IF idx # 0
        THEN LET host0 == Before(endpoint_str, idx)
                 port_str == After(endpoint_str, idx)
                 host == IF StartsWith(host0, "[") /\ EndsWith(host0, "]")
                         THEN SubSeq(host0, 2, Len(host0) - 1)
                         ELSE host0
             IN  << host, UnwrapOr(ParseU16(port_str), DefaultWgPort) >>
        ELSE << endpoint_str, DefaultWgPort >>

WgDefaultAllowedIps(allowed_ips) ==
    IF allowed_ips = << >>
    THEN << << "0.0.0.0", "/", "0" >>, << ":", ":", "/", "0" >> >>
    ELSE allowed_ips

\* The proxy built from the locals st and the endpoint ep = << server, port >>.
WgProxy(st, ep) ==
    [type |-> "wireguard",
     name |-> Str("WireGuard"),
     server |-> ep[1],
     port |-> ep[2],
     ip |-> st.ip[1],
     ipv6 |-> st.ipv6,
     private_key |-> st.private_key[1],
     public_key |-> st.public_key[1],
     pre_shared_key |-> st.pre_shared_key,
     allowed_ips |-> WgDefaultAllowedIps(st.allowed_ips),
     udp |-> Some(TRUE),
     mtu |-> st.mtu,
     reserved |-> None]

\* What follows the loop, on the locals st.
WgFinish(st) ==
    IF WgRejected(st) THEN None ELSE Some(WgProxy(st, WgEndpoint(st.endpoint[1])))

parse_wireguard(c) == WgFinish(WgLines(WgStart, c))

----------------------------------------------------------------------------
(* serde_yaml::Value: a document tree.  A mapping keeps its entries in     *)
(* insertion order; its keys are plain strings.                            *)

YNull == [k |-> "null"]
YStr(s) == [k |-> "str", s |-> s]
YInt(n) == [k |-> "int", n |-> n]
YBool(b) == [k |-> "bool", b |-> b]
YSeq(items) == [k |-> "seq", items |-> items]
YMap(entries) == [k |-> "map", entries |-> entries]

YKeyIndex(v, key) ==
    IF v.k = "map" /\ \E i \in 1..Len(v.entries) : v.entries[i][1] = key
    THEN CHOOSE i \in 1..Len(v.entries) : v.entries[i][1] = key
    ELSE 0

\* Value::get(key): Some(value) for a mapping that holds the key, else None.
YGet(v, key) ==
    IF YKeyIndex(v, key) = 0 THEN None ELSE Some(v.entries[YKeyIndex(v, key)][2])

\* Mapping::insert(key, val): the value of an existing key is replaced in
\* place, a new key is appended.
YInsert(m, key, val) ==
    LET i == YKeyIndex(m, key)
    IN  IF i = 0 THEN YMap(Append(m.entries, << key, val >>))
        ELSE YMap([m.entries EXCEPT ![i] = << key, val >>])

\* as_sequence(): Some(items) for a sequence, else None.
YGetSeq(v, key) ==
    IF YGet(v, key) # None /\ YGet(v, key)[1].k = "seq"
    THEN Some(YGet(v, key)[1].items)
    ELSE None

----------------------------------------------------------------------------
(* Serialization of the proxy model (#[derive(Serialize)], tag = "type",   *)
(* skip_serializing_if = "Option::is_none").                               *)

Field(key, val) == << << key, val >> >>
OptField(key, o, F(_)) == IF o = << >> THEN << >> ELSE << << key, F(o[1]) >> >>

YStrSeq(ss) == YSeq([i \in 1..Len(ss) |-> YStr(ss[i])])

RealityOptsValue(r) ==
    YMap(Field("public-key", YStr(r.public_key)) \o Field("short-id", YStr(r.short_id)))

HeadersValue(h) == YMap([i \in 1..Len(h) |-> << h[i][1], YStr(h[i][2]) >>])

WsOptsValue(w) ==
    YMap(Field("path", YStr(w.path)) \o OptField("headers", w.headers, HeadersValue))

GrpcOptsValue(g) == YMap(Field("grpc-service-name", YStr(g.grpc_service_name)))

\* serde_yaml::to_value(proxy)
ToValue(p) ==
    LET head == Field("type", YStr(Str(p.type))) \o Field("name", YStr(p.name))
                \o Field("server", YStr(p.server)) \o Field("port", YInt(p.port))
    IN  CASE p.type = "vless" ->
               YMap(head \o Field("uuid", YStr(p.uuid))
                    \o OptField("flow", p.flow, YStr)
                    \o OptField("udp", p.udp, YBool)
                    \o OptField("tls", p.tls, YBool)
                    \o OptField("skip-cert-verify", p.skip_cert_verify, YBool)
                    \o OptField("servername", p.servername, YStr)
                    \o OptField("network", p.network, YStr)
                    \o OptField("client-fingerprint", p.client_fingerprint, YStr)
                    \o OptField("reality-opts", p.reality_opts, RealityOptsValue)
                    \o OptField("ws-opts", p.ws_opts, WsOptsValue)
                    \o OptField("grpc-opts", p.grpc_opts, GrpcOptsValue))
          [] p.type = "vmess" ->
               YMap(head \o Field("uuid", YStr(p.uuid))
                    \o Field("alterId", YInt(p.alter_id))
                    \o Field("cipher", YStr(p.cipher))
                    \o OptField("udp", p.udp, YBool)
                    \o OptField("tls", p.tls, YBool)
                    \o OptField("skip-cert-verify", p.skip_cert_verify, YBool)
                    \o OptField("servername", p.servername, YStr)
                    \o OptField("network", p.network, YStr)
                    \o OptField("ws-opts", p.ws_opts, WsOptsValue))
          [] p.type = "hysteria2" ->
               YMap(head \o Field("password", YStr(p.password))
                    \o OptField("sni", p.sni, YStr)
                    \o OptField("skip-cert-verify", p.skip_cert_verify, YBool)
                    \o OptField("obfs", p.obfs, YStr)
                    \o OptField("obfs-password", p.obfs_password, YStr))
          [] p.type = "trojan" ->
               YMap(head \o Field("password", YStr(p.password))
                    \o OptField("udp", p.udp, YBool)
                    \o OptField("tls", p.tls, YBool)
                    \o OptField("skip-cert-verify", p.skip_cert_verify, YBool)
                    \o OptField("servername", p.servername, YStr)
                    \o OptField("network", p.network, YStr)
                    \o OptField("client-fingerprint", p.client_fingerprint, YStr)
                    \o OptField("flow", p.flow, YStr)
                    \o OptField("reality-opts", p.reality_opts, RealityOptsValue))
          [] p.type = "ss" ->
               YMap(head \o Field("password", YStr(p.password))
                    \o Field("cipher", YStr(p.cipher))
                    \o OptField("udp", p.udp, YBool)
                    \o OptField("network", p.network, YStr)
                    \o OptField("plugin", p.plugin, YStr)
                    \o OptField("plugin-opts", p.plugin_opts, HeadersValue))
          [] p.type = "tuic" ->
               YMap(head \o Field("password", YStr(p.password))
                    \o Field("uuid", YStr(p.uuid))
                    \o OptField("udp", p.udp, YBool)
                    \o OptField("tls", p.tls, YBool)
                    \o OptField("skip-cert-verify", p.skip_cert_verify, YBool)
                    \o OptField("servername", p.servername, YStr)
                    \o OptField("alpn", p.alpn, YStrSeq)
                    \o OptField("congestion-controller", p.congestion_controller, YStr)
                    \o OptField("zero-rtt", p.zero_rtt, YBool))
          [] p.type = "wireguard" ->
               YMap(head \o Field("ip", YStr(p.ip))
                    \o OptField("ipv6", p.ipv6, YStr)
                    \o Field("private-key", YStr(p.private_key))
                    \o Field("public-key", YStr(p.public_key))
                    \o OptField("pre-shared-key", p.pre_shared_key, YStr)
                    \o Field("allowed-ips", YStrSeq(p.allowed_ips))
                    \o OptField("udp", p.udp, YBool)
                    \o OptField("mtu", p.mtu, YInt)
                    \o OptField("reserved", p.reserved, YStrSeq))

ToValues(ps) == [i \in 1..Len(ps) |-> ToValue(ps[i])]

\* ProxyGroup
GroupValue(g) ==
    YMap(Field("name", YStr(g.name)) \o Field("type", YStr(g.group_type))
         \o Field("proxies", YStrSeq(g.proxies))
         \o OptField("url", g.url, YStr)
         \o OptField("interval", g.interval, YInt))

\* ClashConfig
ConfigValue(c) ==
    YMap(Field("proxies", YSeq(ToValues(c.proxies)))
         \o Field("proxy-groups",
                  YSeq([i \in 1..Len(c.proxy_groups) |-> GroupValue(c.proxy_groups[i])]))
         \o Field("rules", YStrSeq(c.rules)))

----------------------------------------------------------------------------
(* generate_clash_yaml                                                     *)

\* The name match of the two loops.
ProxyName(p) == p.name

\* The prefix dispatch of the links loop.
DecodeLink(l) ==
    IF StartsWith(l, "vless://") THEN parse_vless(l)
    ELSE IF StartsWith(l, "vmess://") THEN parse_vmess(l)
    ELSE IF StartsWith(l, "hy2://") \/ StartsWith(l, "hysteria2://") THEN parse_hy2(l)
    ELSE IF StartsWith(l, "trojan://") THEN parse_trojan(l)
    ELSE IF StartsWith(l, "ss://") THEN parse_ss(l)
    ELSE IF StartsWith(l, "tuic://") THEN parse_tuic(l)
    ELSE None

\* PushSome with a proxy dropped when its name was already collected.
PushSomeUnique(acc, proxy) ==
    IF proxy # None /\ \A i \in 1..Len(acc) : acc[i].name # proxy[1].name
    THEN Append(acc, proxy[1])
    ELSE acc

\* if let Some(p) = proxy { ... proxies.push(p) }
PushSome(acc, proxy) == IF proxy # None THEN Append(acc, proxy[1]) ELSE acc

\* One iteration of the links loop on the accumulated proxies.
PushDecoded(acc, l) == PushSome(acc, DecodeLink(l))

RECURSIVE LinksLoop(_, _)
LinksLoop(acc, ls) ==
    IF ls = << >> THEN acc ELSE LinksLoop(PushDecoded(acc, Head(ls)), Tail(ls))

\* `proxies` after the extras loop and the links loop.
CollectProxies(ls, extras) == LinksLoop(extras, ls)

\* `proxy_names`: pushed together with each proxy.
CollectNames(ps) == [i \in 1..Len(ps) |-> ProxyName(ps[i])]

SentinelGroup == Str("PROXY")

\* "Ensure the key exists and is a sequence": inserted when missing or null,
\* and only into a mapping.
EnsureSeqKey(doc, key) ==
    IF (YGet(doc, key) = None \/ YGet(doc, key) = Some(YNull)) /\ doc.k = "map"
    THEN YInsert(doc, key, YSeq(<< >>))
    ELSE doc

\* The rendered proxies pushed onto the sequence under "proxies", if any.
PushRendered(d, rendered) ==
    IF YGetSeq(d, "proxies") # None
    THEN YInsert(d, "proxies", YSeq(YGetSeq(d, "proxies")[1] \o rendered))
    ELSE d

\* 1. Merge Proxies
MergeProxies(doc, ps) == PushRendered(EnsureSeqKey(doc, "proxies"), ToValues(ps))

IsTargetGroup(group) == YGet(group, "name") = Some(YStr(SentinelGroup))

\* The found group with the names appended, or its member list created.
AppendNames(group, names) ==
    IF YGetSeq(group, "proxies") # None
    THEN YInsert(group, "proxies",
                 YSeq(YGetSeq(group, "proxies")[1] \o YStrSeq(names).items))
    ELSE IF group.k = "map"
    THEN YInsert(group, "proxies", YStrSeq(names))
    ELSE group

NewProxyGroup(names) ==
    YMap(Field("name", YStr(SentinelGroup)) \o Field("type", YStr(Str("select")))
         \o Field("proxies", YStrSeq(names)))

\* MergeGroupSeq without the `break`: every group named "PROXY" is appended to.
MergeGroupSeqAll(groups, names) ==
    IF \E i \in 1..Len(groups) : IsTargetGroup(groups[i])
    THEN [i \in 1..Len(groups) |->
             IF IsTargetGroup(groups[i]) THEN AppendNames(groups[i], names)
             ELSE groups[i]]
    ELSE Append(groups, NewProxyGroup(names))

\* The groups after the search loop and the creation of a missing group.
MergeGroupSeq(groups, names) ==
    IF \E i \in 1..Len(groups) : IsTargetGroup(groups[i])
    THEN LET t == CHOOSE i \in 1..Len(groups) :
                      IsTargetGroup(groups[i])
                      /\ \A j \in 1..(i - 1) : ~IsTargetGroup(groups[j])
         IN  [groups EXCEPT ![t] = AppendNames(groups[t], names)]
    ELSE Append(groups, NewProxyGroup(names))

\* The group sequence under "proxy-groups", if any, merged.
MergeIntoGroups(d, names) ==
    IF YGetSeq(d, "proxy-groups") # None
    THEN YInsert(d, "proxy-groups",
                 YSeq(MergeGroupSeq(YGetSeq(d, "proxy-groups")[1], names)))
    ELSE d

\* 2. Merge into "PROXY" Group
MergeGroups(doc, names) == MergeIntoGroups(EnsureSeqKey(doc, "proxy-groups"), names)

MergeTemplate(doc, ps, names) == MergeGroups(MergeProxies(doc, ps), names)

HealthCheckUrl == << "http://", "www.gstatic.com", "/", "generate_204" >>
HealthCheckInterval == 300

\* DefaultGroups with the select group's leading "Auto" member left out.
DefaultGroupsNoAuto(names) ==
    << [name |-> Str("Proxy"), group_type |-> Str("select"),
        proxies |-> names, url |-> None, interval |-> None],
       [name |-> Str("Auto"), group_type |-> Str("url-test"),
        proxies |-> names, url |-> Some(HealthCheckUrl),
        interval |-> Some(HealthCheckInterval)] >>

\* The two default groups.
DefaultGroups(names) ==
    << [name |-> Str("Proxy"), group_type |-> Str("select"),
        proxies |-> << Str("Auto") >> \o names, url |-> None, interval |-> None],
       [name |-> Str("Auto"), group_type |-> Str("url-test"),
        proxies |-> names, url |-> Some(HealthCheckUrl),
        interval |-> Some(HealthCheckInterval)] >>

\* Default Logic (No Template)
RenderDefault(ps, names) ==
    ConfigValue([proxies |-> ps,
                 proxy_groups |-> DefaultGroups(names),
                 rules |-> << << "MATCH", ",", "Proxy" >> >>])

\* serde_yaml::from_str on the template texts of the inputs: Ok(document)
\* or Err (None).
O(a) == YStr(Str(a))
M(entries) == YMap(entries)
YamlFromStr(text) ==
    CASE text = "[a" -> None
      [] text = "~" -> Some(YNull)
      [] text = "hello" -> Some(O("hello"))
      [] text = "[x]" -> Some(YSeq(<< O("x") >>))
      [] text = "{}" -> Some(M(<< >>))
      [] text = "{mode: rule}" -> Some(M(Field("mode", O("rule"))))
      [] text = "{proxies: ~, proxy-groups: ~}" ->
           Some(M(Field("proxies", YNull) \o Field("proxy-groups", YNull)))
      [] text = "{proxies: [{name: old}], proxy-groups: [{name: G1, type: select, proxies: [DIRECT]}], rules: [MATCH]}" ->
           Some(M(Field("proxies", YSeq(<< M(Field("name", O("old"))) >>))
                  \o Field("proxy-groups",
                       YSeq(<< M(Field("name", O("G1")) \o Field("type", O("select"))
                                 \o Field("proxies", YSeq(<< O("DIRECT") >>))) >>))
                  \o Field("rules", YSeq(<< O("MATCH") >>))))
      [] text = "{mode: rule, proxies: [{name: old}], proxy-groups: [{name: G1, proxies: [DIRECT]}, {name: PROXY, type: select, proxies: [old], icon: i}, {name: PROXY, proxies: [late]}], rules: [MATCH]}" ->
           Some(M(Field("mode", O("rule"))
                  \o Field("proxies", YSeq(<< M(Field("name", O("old"))) >>))
                  \o Field("proxy-groups",
                       YSeq(<< M(Field("name", O("G1"))
                                 \o Field("proxies", YSeq(<< O("DIRECT") >>))),
                               M(Field("name", O("PROXY")) \o Field("type", O("select"))
                                 \o Field("proxies", YSeq(<< O("old") >>))
                                 \o Field("icon", O("i"))),
                               M(Field("name", O("PROXY"))
                                 \o Field("proxies", YSeq(<< O("late") >>))) >>))
                  \o Field("rules", YSeq(<< O("MATCH") >>))))
      [] text = "{proxy-groups: [{name: PROXY, type: select}]}" ->
           Some(M(Field("proxy-groups",
                       YSeq(<< M(Field("name", O("PROXY"))
                                 \o Field("type", O("select"))) >>))))
      [] text = "{proxy-groups: [{name: PROXY, proxies: ~, type: select}]}" ->
           Some(M(Field("proxy-groups",
                       YSeq(<< M(Field("name", O("PROXY")) \o Field("proxies", YNull)
                                 \o Field("type", O("select"))) >>))))
      [] text = "{proxy-groups: [{name: PROXY, proxies: DIRECT}]}" ->
           Some(M(Field("proxy-groups",
                       YSeq(<< M(Field("name", O("PROXY"))
                                 \o Field("proxies", O("DIRECT"))) >>))))
      [] text = "{proxies: x}" -> Some(M(Field("proxies", O("x"))))
      [] text = "{proxy-groups: x}" -> Some(M(Field("proxy-groups", O("x"))))
      [] text = "{proxy-groups: [PROXY, {name: [PROXY]}, {title: PROXY}]}" ->
           Some(M(Field("proxy-groups",
                       YSeq(<< O("PROXY"),
                               M(Field("name", YSeq(<< O("PROXY") >>))),
                               M(Field("title", O("PROXY"))) >>))))

\* The Result<String>: Ok with the serialized document, or Err.
Ok(doc) == [ok |-> TRUE, doc |-> doc]
Err == [ok |-> FALSE]

\* The template path: `?` on the parse result, then the merge.
MergeResult(parsed, ps, names) ==
    IF parsed = None THEN Err ELSE Ok(MergeTemplate(parsed[1], ps, names))

GenerateResult(ps, names, tmpl) ==
    IF tmpl # None
    THEN MergeResult(YamlFromStr(tmpl[1]), ps, names)
    ELSE Ok(RenderDefault(ps, names))

\* The whole call: the locals after the loops and the returned value.
GenerateFrom(ps, names, tmpl) ==
    [proxies |-> ps, proxy_names |-> names, result |-> GenerateResult(ps, names, tmpl)]

GenerateCollected(ps, tmpl) == GenerateFrom(ps, CollectNames(ps), tmpl)

\* generate_clash_yaml with a link that does not decode made a hard error.
generate_clash_yaml_strict(ls, extras, tmpl) ==
    IF \E i \in 1..Len(ls) : DecodeLink(ls[i]) = None
    THEN [proxies |-> extras, proxy_names |-> CollectNames(extras), result |-> Err]
    ELSE GenerateCollected(CollectProxies(ls, extras), tmpl)

generate_clash_yaml(ls, extras, tmpl) == GenerateCollected(CollectProxies(ls, extras), tmpl)

----------------------------------------------------------------------------
(* Inputs                                                                  *)

MaxLinks == 2
MaxExtras == 2
MaxWgLines == 6

SeqsUpTo(S, n) == UNION {[1..m -> S] : m \in 0..n}

\* The sequences of at most n distinct elements of S.
RECURSIVE Arrangements(_, _)
Arrangements(S, n) ==
    IF n = 0 THEN {<< >>}
    ELSE LET shorter == Arrangements(S, n - 1)
             longest == {a \in shorter : Len(a) = n - 1}
         IN  shorter \cup
             {Append(ax[1], ax[2]) :
                 ax \in {bx \in longest \X S :
                            \A i \in 1..Len(bx[1]) : bx[1][i] # bx[2]}}

\* s1 & s2 & ... : the non-empty pieces joined by the separator.
RECURSIVE Join(_, _)
Join(pieces, sep) ==
    IF pieces = << >> THEN << >>
    ELSE IF Head(pieces) = << >> THEN Join(Tail(pieces), sep)
    ELSE IF Join(Tail(pieces), sep) = << >> THEN Head(pieces)
    ELSE Head(pieces) \o << sep >> \o Join(Tail(pieces), sep)

\* URI-style links: scheme://[userinfo@]host[:port][?query][#fragment]
UrlSchemes == {"vless://", "hy2://", "hysteria2://", "trojan://", "tuic://", "vles://"}
UrlUserinfos == {<< >>, << "u", "@" >>, << "u", ":", "pw", "@" >>}
UrlHosts == {<< "h" >>, << >>}
UrlPorts == {<< ":", "443" >>, << >>, << ":", "70000" >>}
UrlSecurities == {<< >>, << "security", "=", "reality" >>, << "security", "=", "tls" >>}
UrlTypes == {<< >>, << "type", "=", "tcp" >>, << "type", "=", "ws" >>,
             << "type", "=", "grpc" >>}
UrlFragments == {<< >>, << "#" >>, << "#", "N" >>}

UrlQuery(sec, typ) ==
    IF Join(<< sec, typ >>, "&") = << >> THEN << >>
    ELSE << "?" >> \o Join(<< sec, typ >>, "&")

UrlLinks ==
    {<< sch >> \o ui \o hst \o prt \o UrlQuery(sec, typ) \o frg :
        sch \in UrlSchemes, ui \in UrlUserinfos, hst \in UrlHosts, prt \in UrlPorts,
        sec \in UrlSecurities, typ \in UrlTypes, frg \in UrlFragments}

\* vmess links: vmess:// base64({"ps": .., "add": .., "port": .., "id": .., "net": ..})
JsonString(key, s) == << Quote, key, Quote, ":", Quote >> \o s \o << Quote >>
JsonBare(key, a) == << Quote, key, Quote, ":", a >>
JsonText(members) == << "{" >> \o Join(members, ",") \o << "}" >>

VmessPs == {<< >>, JsonString("ps", << >>), JsonString("ps", Str("N"))}
VmessAdd == {<< >>, JsonString("add", << >>), JsonString("add", Str("h"))}
VmessPort == {<< >>, JsonString("port", Str("443")), JsonBare("port", "443"),
              JsonString("port", Str("70000"))}
VmessId == {<< >>, JsonString("id", Str("u"))}
VmessNet == {<< >>, JsonString("net", Str("ws"))}

VmessAid == {<< >>, JsonString("aid", Str("80")), JsonString("aid", Str("abc"))}
VmessTls == {<< >>, JsonString("tls", Str("tls")), JsonString("tls", Str("none"))}

VmessLink(ps, add, prt, id, net, aid, tls) ==
    << "vmess://" >> \o B64Encode(JsonText(<< ps, add, prt, id, net, aid, tls >>))

VmessLinks ==
    {VmessLink(ps, add, prt, id, net, aid, tls) :
        ps \in VmessPs, add \in VmessAdd, prt \in VmessPort, id \in VmessId,
        net \in VmessNet, aid \in VmessAid, tls \in VmessTls}
    \cup {<< "vmess://", "abc" >>,
          << "vmess://", "vmess://" >>
              \o B64Encode(JsonText(<< JsonString("add", Str("h")),
                                       JsonString("port", Str("443")),
                                       JsonString("id", Str("u")) >>))}

\* ss links: ss:// base64(cipher:password@server:port) [#name]
SsPayloads ==
    {<< "aes", ":", "pw", "@", "h", ":", "8388" >>,
     << "aes", ":", "pw", "@", ":", "8388" >>,
     << "aes", "@", "h", ":", "8388" >>,
     << "aes", ":", "pw", "@", "h" >>,
     << "aes", ":", "pw", "@", "h", ":", "abc" >>,
     << "aes", ":", "pw", "@", "h", ":", "70000" >>,
     << "aes", ":", "pw", "@", "h", "@", "h", ":", "8388" >>,
     << "aes", ":", "pw", "@", "h", ":", "8388", "@", "x" >>,
     << "aes", ":", "p", ":", "w", "@", "h", ":", "8388" >>,
     << "aes", ":", "pw", "@", "h", ":", "8388", ":", "80" >>,
     << "aes", ":", "pw", "@", "h", ":", "65535" >>,
     << "aes", ":", "pw", "@", "h", ":", "65536" >>}
SsNames == {<< >>, << "#" >>, << "#", "N" >>, << "#", "N", "#", "N2" >>}

SsLinks ==
    {<< "ss://" >> \o B64Encode(pl) \o nm : pl \in SsPayloads, nm \in SsNames}
    \cup {<< "ss://", "aes", ":", "pw", "@", "h", ":", "8388" >>}

DecodeLinks == UrlLinks \cup VmessLinks \cup SsLinks

\* WireGuard blocks: the lines a block is made of.
WgInputLines ==
    {<< "[", "Interface", "]" >>,
     << "[", "Peer", "]" >>,
     << "PrivateKey", " ", "=", " ", "priv" >>,
     << "Address", " ", "=", " ", "10.0.0.2", "/", "32" >>,
     << "Address", " ", "=", " ", "fd00", ":", ":", "1", "/", "64" >>,
     << "PublicKey", " ", "=", " ", "pub" >>,
     << "Endpoint", " ", "=", " ", "h", ":", "51820" >>}

WgBlocks == Arrangements(WgInputLines, MaxWgLines)

\* generate_clash_yaml: the links of a batch, the extra proxies (main.rs
\* passes what parse_wireguard returned) and the template texts.
GenLinks ==
    {<< "vless://", "u", "@", "h", ":", "443", "#", "N" >>,
     << "ss://" >> \o B64Encode(<< "aes", ":", "pw", "@", "h", ":", "8388" >>)
         \o << "#", "N" >>,
     << "trojan://", "pw", "@", "h", ":", "443" >>,
     << "vles://", "u", "@", "h", ":", "443", "#", "N3" >>,
     << "vless://", "u", "@", "h", "#", "N4" >>}

WgSampleBlock(endpoint) ==
    << << "[", "Interface", "]" >>,
       << "PrivateKey", " ", "=", " ", "priv" >>,
       << "Address", " ", "=", " ", "10.0.0.2", "/", "32" >>,
       << "[", "Peer", "]" >>,
       << "PublicKey", " ", "=", " ", "pub" >>,
       << "Endpoint", " ", "=", " " >> \o endpoint >>

\* Endpoint values: host:port, host alone, ports out of range or not a
\* number, and bracketed IPv6 literals with and without a port.
WgEndpoints ==
    {<< "h", ":", "51820" >>, << "h", ":", "443" >>, << "h" >>,
     << "h", ":", "70000" >>, << "h", ":", "abc" >>, << "h", ":" >>,
     << "1.2.3.4", ":", "443" >>,
     << "[", "fd00", ":", ":", "1", "]", ":", "443" >>,
     << "[", "fd00", ":", ":", "1", "]" >>}

\* The lines that follow the Endpoint line.
WgAllowedTails ==
    {<< >>,
     << << "AllowedIPs", " ", "=", " ", "10.0.0.0", "/", "8" >> >>,
     << << "AllowedIPs", " ", "=", " ", "10.0.0.0", "/", "8", " ", ",", " ",
           ":", ":", "/", "0", " " >> >>,
     << << "AllowedIPs", " ", "=" >> >>,
     << << "AllowedIPs", " ", "=", " ", "10.0.0.0", "/", "8" >>,
        << "AllowedIPs", " ", "=", " ", "192.168.0.0", "/", "16" >> >>,
     << << "AllowedIPs", " ", "=", " ", "10.0.0.0", "/", "8" >>,
        << "AllowedIPs", " ", "=" >> >>,
     << << "[", "Interface", "]" >>,
        << "AllowedIPs", " ", "=", " ", "10.0.0.0", "/", "8" >> >>}

WgPeerBlocks == {WgSampleBlock(e) \o t : e \in WgEndpoints, t \in WgAllowedTails}

\* Lines without effect: blank, comments (also ones that look like a header
\* or a key), a key without "=", an unterminated header.
WgJunkLines ==
    {<< >>,
     << " ", " " >>,
     << "#", " ", "note" >>,
     << " ", "#", "[", "Peer", "]" >>,
     << "#", "PrivateKey", " ", "=", " ", "other" >>,
     << "PrivateKey", " ", "other" >>,
     << "[", "Peer" >>}

WgPrivateKeyLines ==
    {<< "PrivateKey", " ", "=", " ", "priv" >>,
     << "PrivateKey", " ", "=", " ", "priv", "=" >>,
     << "PrivateKey", "=", "priv", "=", "=" >>}

WgPublicKeyLines ==
    {<< "PublicKey", " ", "=", " ", "pub" >>,
     << "PublicKey", " ", "=", " ", "pub", "=" >>}

WgFilterBlocks ==
    {<< j1, << "[", "Interface", "]" >>, j2, sk,
        << "Address", " ", "=", " ", "10.0.0.2", "/", "32" >>, j3,
        << "[", "Peer", "]" >>, pk,
        << "Endpoint", " ", "=", " ", "h", ":", "51820" >> >> :
        j1 \in WgJunkLines, j2 \in WgJunkLines, j3 \in WgJunkLines,
        sk \in WgPrivateKeyLines, pk \in WgPublicKeyLines}

\* Section headers, and the bodies a section may hold: interface keys, peer
\* keys (in other letter case, padded, with several Address lines), keys of
\* both sections together, nothing.
WgHeaders ==
    {<< "[", "Interface", "]" >>, << "[", "PEER", "]" >>, << "[", "Other", "]" >>}

WgBodies ==
    {<< >>,
     << << "PrivateKey", " ", "=", " ", "priv" >>,
        << "Address", " ", "=", " ", "10.0.0.2", "/", "32" >> >>,
     << << " ", "PRIVATEKEY", " ", "=", " ", " ", "priv", " " >>,
        << "Address", " ", "=", " ", "10.0.0.2", "/", "32", ",", " ",
           "fd00", ":", ":", "1", "/", "64" >>,
        << "Address", "=", "10.0.0.3" >>,
        << "MTU", " ", "=", " ", "1420" >> >>,
     << << "PublicKey", " ", "=", " ", "pub" >>,
        << "Endpoint", " ", "=", " ", "h", ":", "51820" >> >>,
     << << "publickey", "=", "pub" >>,
        << "Endpoint", " ", "=", " ", "h", ":", "443", " " >>,
        << "PresharedKey", " ", "=", " ", "psk" >>,
        << "AllowedIPs", " ", "=", " ", "10.0.0.0", "/", "8" >> >>,
     << << "PrivateKey", " ", "=", " ", "priv2" >>,
        << "PublicKey", " ", "=", " ", "pub2" >>,
        << "Address", " ", "=", " ", "fd00", ":", ":", "2" >>,
        << "Endpoint", " ", "=", " ", "h2", ":", "443" >> >>}

WgEarlyLines ==
    {<< >>,
     << << "PrivateKey", " ", "=", " ", "early" >>,
        << "PublicKey", " ", "=", " ", "early" >> >>}

WgSectionBlocks ==
    {pre \o << h1 >> \o b1 \o << h2 >> \o b2 \o << h3 >> \o b3 :
        pre \in WgEarlyLines, h1 \in WgHeaders, h2 \in WgHeaders, h3 \in WgHeaders,
        b1 \in WgBodies, b2 \in WgBodies, b3 \in WgBodies}

GenExtras ==
    {parse_wireguard(WgSampleBlock(<< "h", ":", "51820" >>))[1],
     parse_wireguard(WgSampleBlock(<< "1.2.3.4", ":", "443" >>))[1]}

TemplateTexts ==
    {"[a", "~", "hello", "[x]", "{}", "{mode: rule}",
     "{proxies: ~, proxy-groups: ~}",
     "{proxies: [{name: old}], proxy-groups: [{name: G1, type: select, proxies: [DIRECT]}], rules: [MATCH]}",
     "{mode: rule, proxies: [{name: old}], proxy-groups: [{name: G1, proxies: [DIRECT]}, {name: PROXY, type: select, proxies: [old], icon: i}, {name: PROXY, proxies: [late]}], rules: [MATCH]}",
     "{proxy-groups: [{name: PROXY, type: select}]}",
     "{proxy-groups: [{name: PROXY, proxies: ~, type: select}]}",
     "{proxy-groups: [{name: PROXY, proxies: DIRECT}]}",
     "{proxies: x}", "{proxy-groups: x}",
     "{proxy-groups: [PROXY, {name: [PROXY]}, {title: PROXY}]}"}

----------------------------------------------------------------------------
(* Specifications                                                          *)

\* A call of generate_clash_yaml.
Init ==
    /\ pc = "start"
    /\ links \in SeqsUpTo(GenLinks, MaxLinks)
    /\ extra_proxies \in SeqsUpTo(GenExtras, MaxExtras)
    /\ template \in {None} \cup {Some(t) : t \in TemplateTexts}
    /\ proxies = << >> /\ proxy_names = << >> /\ result = None
    /\ link = << >> /\ decoded = None
    /\ content = << >> /\ wg = None

Generate ==
    /\ pc = "start"
    /\ pc' = "done"
    /\ \E r \in {generate_clash_yaml(links, extra_proxies, template)} :
           /\ proxies' = r.proxies
           /\ proxy_names' = r.proxy_names
           /\ result' = Some(r.result)
    /\ UNCHANGED << links, extra_proxies, template, link, decoded, content, wg >>

Next == Generate

Spec == Init /\ [][Next]_vars

\* A call of the link dispatch with one link.
InitDecode ==
    /\ pc = "start"
    /\ link \in DecodeLinks
    /\ decoded = None
    /\ links = << >> /\ extra_proxies = << >> /\ template = None
    /\ proxies = << >> /\ proxy_names = << >> /\ result = None
    /\ content = << >> /\ wg = None

Decode ==
    /\ pc = "start"
    /\ pc' = "done"
    /\ decoded' = DecodeLink(link)
    /\ UNCHANGED << links, extra_proxies, template, proxies, proxy_names, result,
                    link, content, wg >>

NextDecode == Decode

SpecDecode == InitDecode /\ [][NextDecode]_vars

\* A call of parse_wireguard with one block.
InitWg ==
    /\ pc = "start"
    /\ content \in WgBlocks
    /\ wg = None
    /\ links = << >> /\ extra_proxies = << >> /\ template = None
    /\ proxies = << >> /\ proxy_names = << >> /\ result = None
    /\ link = << >> /\ decoded = None

ParseWireguard ==
    /\ pc = "start"
    /\ pc' = "done"
    /\ wg' = parse_wireguard(content)
    /\ UNCHANGED << links, extra_proxies, template, proxies, proxy_names, result,
                    link, decoded, content >>

NextWg == ParseWireguard

SpecWg == InitWg /\ [][NextWg]_vars

\* A call of parse_wireguard with a complete block whose [Peer] section ends
\* with one of the Endpoint values and AllowedIPs lines.
InitWgPeer ==
    /\ pc = "start"
    /\ content \in WgPeerBlocks
    /\ wg = None
    /\ links = << >> /\ extra_proxies = << >> /\ template = None
    /\ proxies = << >> /\ proxy_names = << >> /\ result = None
    /\ link = << >> /\ decoded = None

SpecWgPeer == InitWgPeer /\ [][NextWg]_vars

\* A call of parse_wireguard with a complete block interleaved with lines
\* the filter has to drop, its keys written with and without "=" padding.
InitWgFilter ==
    /\ pc = "start"
    /\ content \in WgFilterBlocks
    /\ wg = None
    /\ links = << >> /\ extra_proxies = << >> /\ template = None
    /\ proxies = << >> /\ proxy_names = << >> /\ result = None
    /\ link = << >> /\ decoded = None

SpecWgFilter == InitWgFilter /\ [][NextWg]_vars

\* A call of parse_wireguard with keys before any header and three sections,
\* each under one of the headers and holding one of the bodies.
InitWgSection ==
    /\ pc = "start"
    /\ content \in WgSectionBlocks
    /\ wg = None
    /\ links = << >> /\ extra_proxies = << >> /\ template = None
    /\ proxies = << >> /\ proxy_names = << >> /\ result = None
    /\ link = << >> /\ decoded = None

SpecWgSection == InitWgSection /\ [][NextWg]_vars

----------------------------------------------------------------------------
(* Properties of generate_clash_yaml (specification Spec)                  *)

RecognizedPrefixes ==
    {"vless://", "vmess://", "hy2://", "hysteria2://", "trojan://", "ss://", "tuic://"}

\* The links of ls that decode, in input order.
AcceptedLinks(ls) == SelectSeq(ls, LAMBDA l : DecodeLink(l) # None)

\* The template's parse result, Some(document) or None.
TemplateDoc == YamlFromStr(template[1])

\* The items of the sequence under key, none when there is no sequence.
ItemsOr(v, key) == IF YGetSeq(v, key) # None THEN YGetSeq(v, key)[1] ELSE << >>

NamedSentinel(g) ==
    g.k = "map" /\ \E i \in 1..Len(g.entries) : g.entries[i] = << "name", YStr(<< "PROXY" >>) >>

NameValues(names) == [i \in 1..Len(names) |-> YStr(names[i])]

\* C1: the proxies handed to rendering/merging, and the parallel names, are
\* the extra proxies in their order followed by the decoded proxy of every
\* link that decodes, in input order; a link with an unrecognized prefix or
\* that fails to decode is left out, and nothing is deduplicated.
C1_CollectedInOrder ==
    pc = "done" =>
        LET acc == AcceptedLinks(links)
            n == Len(extra_proxies)
        IN  /\ Len(proxies) = n + Len(acc)
            /\ \A i \in 1..n : proxies[i] = extra_proxies[i]
            /\ \A i \in 1..Len(acc) : proxies[n + i] = DecodeLink(acc[i])[1]
            /\ Len(proxy_names) = Len(proxies)
            /\ \A i \in 1..Len(proxies) : proxy_names[i] = proxies[i].name
            /\ \A i \in 1..Len(links) :
                   links[i][1] \notin RecognizedPrefixes => DecodeLink(links[i]) = None
            /\ template = None =>
                   YGetSeq(result[1].doc, "proxies") = Some(ToValues(proxies))

\* C1 witness: two different extras, a rejected link before an accepted one.
C1_Witness ==
    /\ pc = "done"
    /\ Len(extra_proxies) = 2 /\ extra_proxies[1] # extra_proxies[2]
    /\ Len(links) = 2
    /\ DecodeLink(links[1]) = None /\ DecodeLink(links[2]) # None
    /\ Len(proxies) = 3

\* C2: the call fails exactly when a template is given and does not parse;
\* links that do not decode never make it fail, and a template that does not
\* parse makes it fail whatever the links.
C2_ErrorOnlyFromTemplate ==
    pc = "done" =>
        /\ result[1].ok = ~(template # None /\ TemplateDoc = None)
        /\ result[1].ok => "doc" \in DOMAIN result[1]

\* C2 witness: a parsable template and links none of which decodes.
C2_Witness ==
    /\ pc = "done"
    /\ template # None /\ result[1].ok
    /\ Len(links) = 2 /\ \A i \in 1..Len(links) : DecodeLink(links[i]) = None

\* C3: without a template the document holds the proxies in order, exactly
\* two groups (select ["Auto"] + N, then url-test "Auto" with members N, the
\* health-check URL and interval 300) and the single catch-all rule.
C3_DefaultDocument ==
    (pc = "done" /\ template = None) =>
        LET doc == result[1].doc
            N == NameValues([i \in 1..Len(proxies) |-> proxies[i].name])
        IN  /\ result[1].ok
            /\ doc.k = "map"
            /\ [i \in 1..Len(doc.entries) |-> doc.entries[i][1]]
                   = << "proxies", "proxy-groups", "rules" >>
            /\ YGet(doc, "proxies") = Some(YSeq(ToValues(proxies)))
            /\ YGet(doc, "proxy-groups") = Some(YSeq(<<
                   YMap(<< << "name", YStr(<< "Proxy" >>) >>,
                           << "type", YStr(<< "select" >>) >>,
                           << "proxies", YSeq(<< YStr(<< "Auto" >>) >> \o N) >> >>),
                   YMap(<< << "name", YStr(<< "Auto" >>) >>,
                           << "type", YStr(<< "url-test" >>) >>,
                           << "proxies", YSeq(N) >>,
                           << "url", YStr(<< "http://", "www.gstatic.com", "/",
                                             "generate_204" >>) >>,
                           << "interval", YInt(300) >> >>) >>))
            /\ YGet(doc, "rules") = Some(YSeq(<< YStr(<< "MATCH", ",", "Proxy" >>) >>))

\* C3 witness: a render of proxies with a duplicated name.
C3_Witness ==
    /\ pc = "done" /\ template = None
    /\ Len(proxy_names) >= 2 /\ proxy_names[1] = proxy_names[2]

\* C4: when a group named "PROXY" exists, the first one gets the new names
\* appended to its member list (created from the names when it has no list),
\* its other fields and all other groups stay as they were, and no group is
\* added.
C4_AppendToSentinel ==
    (pc = "done" /\ template # None /\ TemplateDoc # None) =>
        LET old == ItemsOr(TemplateDoc[1], "proxy-groups")
            new == ItemsOr(result[1].doc, "proxy-groups")
            hits == {i \in 1..Len(old) : NamedSentinel(old[i])}
        IN  hits # {} =>
            LET t == CHOOSE i \in hits : \A j \in hits : i <= j
                others(g) == SelectSeq(g.entries, LAMBDA e : e[1] # "proxies")
            IN  /\ result[1].ok
                /\ Len(new) = Len(old)
                /\ \A i \in 1..Len(old) : i # t => new[i] = old[i]
                /\ YGet(new[t], "proxies")
                       = Some(YSeq(ItemsOr(old[t], "proxies") \o NameValues(proxy_names)))
                /\ others(new[t]) = others(old[t])

\* C4 witness: a template with two groups named "PROXY", two names merged.
C4_Witness ==
    /\ pc = "done" /\ template # None /\ TemplateDoc # None
    /\ Cardinality({i \in 1..Len(ItemsOr(TemplateDoc[1], "proxy-groups")) :
                       NamedSentinel(ItemsOr(TemplateDoc[1], "proxy-groups")[i])}) = 2
    /\ Len(proxy_names) >= 2

\* C5: when no group is named "PROXY" (the proxy-groups key missing or null
\* included), proxy-groups afterwards is the previous groups followed by one
\* new select group "PROXY" whose members are the new names.
C5_NewGroupAppended ==
    (pc = "done" /\ template # None /\ TemplateDoc # None) =>
        LET doc0 == TemplateDoc[1]
            old == ItemsOr(doc0, "proxy-groups")
            applies == /\ \/ YGet(doc0, "proxy-groups") = None
                          \/ YGet(doc0, "proxy-groups") = Some(YNull)
                          \/ YGetSeq(doc0, "proxy-groups") # None
                       /\ \A i \in 1..Len(old) : ~NamedSentinel(old[i])
        IN  applies =>
            /\ result[1].ok
            /\ YGet(result[1].doc, "proxy-groups")
                   = Some(YSeq(old \o <<
                         YMap(<< << "name", YStr(<< "PROXY" >>) >>,
                                 << "type", YStr(<< "select" >>) >>,
                                 << "proxies", YSeq(NameValues(proxy_names)) >> >>) >>))

\* C6: after a successful merge the top-level proxies value is the template's
\* prior entries (none when the key was missing or null) followed by every
\* rendered proxy.
C6_AllRenderedMerged ==
    (pc = "done" /\ template # None /\ result[1].ok) =>
        YGet(result[1].doc, "proxies")
            = Some(YSeq(ItemsOr(TemplateDoc[1], "proxies") \o ToValues(proxies)))

\* A group after the merge keeps what it held: the same keys at the same
\* positions, each with its value, the member list at most extended.
GroupKept(g, h) ==
    IF g.k # "map" THEN h = g
    ELSE /\ h.k = "map"
         /\ Len(h.entries) >= Len(g.entries)
         /\ \A i \in 1..Len(g.entries) :
                /\ h.entries[i][1] = g.entries[i][1]
                /\ \/ h.entries[i][2] = g.entries[i][2]
                   \/ /\ g.entries[i][1] = "proxies"
                      /\ h.entries[i][2].k = "seq"
                      /\ \/ g.entries[i][2] = YNull
                         \/ /\ g.entries[i][2].k = "seq"
                            /\ Len(h.entries[i][2].items) >= Len(g.entries[i][2].items)
                            /\ \A j \in 1..Len(g.entries[i][2].items) :
                                   h.entries[i][2].items[j] = g.entries[i][2].items[j]

\* C7: the merge is append-only: every other top-level key keeps its value,
\* every prior entry of proxies and proxy-groups stays at its position, and
\* no value inside a group is removed or replaced.
C7_AppendOnly ==
    (pc = "done" /\ template # None /\ result[1].ok) =>
        LET doc0 == TemplateDoc[1]
            doc1 == result[1].doc
        IN  IF doc0.k # "map" THEN doc1 = doc0
            ELSE /\ doc1.k = "map"
                 /\ Len(doc1.entries) >= Len(doc0.entries)
                 /\ \A i \in 1..Len(doc0.entries) :
                        /\ doc1.entries[i][1] = doc0.entries[i][1]
                        /\ doc0.entries[i][1] \notin {"proxies", "proxy-groups"}
                               => doc1.entries[i][2] = doc0.entries[i][2]
                 /\ \A i \in 1..Len(ItemsOr(doc0, "proxies")) :
                        /\ Len(ItemsOr(doc1, "proxies")) >= i
                        /\ ItemsOr(doc1, "proxies")[i] = ItemsOr(doc0, "proxies")[i]
                 /\ \A i \in 1..Len(ItemsOr(doc0, "proxy-groups")) :
                        /\ Len(ItemsOr(doc1, "proxy-groups")) >= i
                        /\ GroupKept(ItemsOr(doc0, "proxy-groups")[i],
                                     ItemsOr(doc1, "proxy-groups")[i])

----------------------------------------------------------------------------
(* Properties of the link decoders (specification SpecDecode)              *)

\* The option blocks a proxy has set, among reality_opts, ws_opts, grpc_opts.
BlocksSet(p) ==
    {f \in {"reality_opts", "ws_opts", "grpc_opts"} \cap DOMAIN p : p[f] # None}

\* The value of a query parameter of the link.
LinkParam(key) == QueryGet(UrlParse(link)[1].query, key)

C9_NameAndServerNonEmpty ==
    (pc = "done" /\ decoded # None) =>
        decoded[1].name # << >> /\ decoded[1].server # << >>

\* An ss link as written: what follows the scheme prefix, the position of
\* its first "#", and the payload before it.
SsRest == Tail(link)
SsPayload == IF IndexOf(SsRest, "#") = 0 THEN SsRest ELSE Before(SsRest, IndexOf(SsRest, "#"))

\* The payload is the base64 text of cipher:password@server:port.
SsCarries(cipher, password, server, numeral) ==
    SsPayload = B64Encode(<< cipher, ":", password, "@", server, ":", numeral >>)

SsFieldsAre(cipher, password, server, numeral) ==
    /\ decoded # None
    /\ decoded[1].cipher = << cipher >> /\ decoded[1].password = << password >>
    /\ decoded[1].server = << server >> /\ decoded[1].port = NumeralValue(numeral)

\* C13 as stated: the name is what follows the last "#" of the link.
C13_NameAfterLastHash ==
    (pc = "done" /\ link[1] = "ss://" /\ decoded # None) =>
        decoded[1].name =
            IF LastIndexOf(SsRest, "#") = 0 THEN << "Shadowsocks Node" >>
            ELSE After(SsRest, LastIndexOf(SsRest, "#"))

\* C13, amended: the name is everything after the first "#" of the link
\* (the default without "#"), only the part before the first "#" is
\* base64-decoded, and for base64 of cipher:password@server:port the proxy
\* has that cipher, password, server and port whatever the name holds.
C13_NameAfterFirstHash ==
    (pc = "done" /\ link[1] = "ss://") =>
        /\ decoded # None =>
               decoded[1].name =
                   IF IndexOf(SsRest, "#") = 0 THEN << "Shadowsocks Node" >>
                   ELSE After(SsRest, IndexOf(SsRest, "#"))
        /\ \A n \in {"8388", "65535"} :
               SsCarries("aes", "pw", "h", n) => SsFieldsAre("aes", "pw", "h", n)

\* C13 witness: a decoded ss link whose name holds a "#".
C13_Witness ==
    /\ pc = "done" /\ link[1] = "ss://" /\ decoded # None
    /\ SsCarries("aes", "pw", "h", "8388")
    /\ decoded[1].name = << "N", "#", "N2" >>

Count(s, t) == Cardinality({i \in 1..Len(s) : s[i] = t})

\* The text has the shape the decoder accepts: one "@", a ":" on each side,
\* and after the first ":" of the right side a number of the 16-bit range.
SsShape(t) ==
    /\ Count(t, "@") = 1
    /\ LET left == Before(t, IndexOf(t, "@"))
           right == After(t, IndexOf(t, "@"))
           port == After(right, IndexOf(right, ":"))
       IN  /\ Count(left, ":") >= 1
           /\ Count(right, ":") >= 1
           /\ Len(port) = 1 /\ port[1] \in Numerals /\ NumeralValue(port[1]) <= 65535

\* C14 as stated: a proxy only for a text with exactly two "@"-separated
\* parts, each with exactly two ":"-separated parts, and a 16-bit port.
C14_ExactlyTwoParts ==
    (pc = "done" /\ link[1] = "ss://" /\ decoded # None) =>
        \A t \in SsPayloads : SsPayload = B64Encode(t) =>
            /\ SsShape(t)
            /\ Count(Before(t, IndexOf(t, "@")), ":") = 1
            /\ Count(After(t, IndexOf(t, "@")), ":") = 1

\* C14, amended: a proxy exactly when the decoded text has one "@", each
\* side holds a ":", and what follows the first ":" of the right side is a
\* 16-bit number; each side is cut at its first ":", so the password may
\* hold further ":" while a further ":" on the right side spoils the port.
C14_ShapeDecides ==
    (pc = "done" /\ link[1] = "ss://") =>
        /\ (\A t \in SsPayloads : SsPayload # B64Encode(t)) => decoded = None
        /\ \A t \in SsPayloads : SsPayload = B64Encode(t) =>
               /\ decoded # None <=> SsShape(t)
               /\ decoded # None =>
                      LET left == Before(t, IndexOf(t, "@"))
                          right == After(t, IndexOf(t, "@"))
                      IN  /\ decoded[1].cipher = Before(left, IndexOf(left, ":"))
                          /\ decoded[1].password = After(left, IndexOf(left, ":"))
                          /\ decoded[1].server = Before(right, IndexOf(right, ":"))
                          /\ decoded[1].port
                                 = NumeralValue(After(right, IndexOf(right, ":"))[1])

\* C14 witness: a decoded ss link whose password holds a ":".
C14_Witness ==
    /\ pc = "done" /\ link[1] = "ss://" /\ decoded # None
    /\ decoded[1].password = << "p", ":", "w" >>

\* The JSON text a vmess link carries: its payload atom by atom, when every
\* atom of it is an encoded atom.
VmessCarriesText == \A i \in 2..Len(link) : IsB64Atom(link[i])
VmessText == [i \in 1..(Len(link) - 1) |-> B64DecodeAtom(link[i + 1])]

\* The string value of the member "key":"text" as written in the JSON text,
\* none for an absent member and for a member whose value is not a string.
MemberText(text, key) ==
    LET at == {i \in 1..(Len(text) - 4) :
                  /\ text[i] = Quote /\ text[i + 1] = key
                  /\ text[i + 2] = Quote /\ text[i + 3] = ":"}
    IN  IF at = {} THEN None
        ELSE LET i == CHOOSE k \in at : TRUE
                 rest == SubSeq(text, i + 5, Len(text))
             IN  IF text[i + 4] # Quote THEN None
                 ELSE Some(Before(rest, IndexOf(rest, Quote)))

IsPortText(o) ==
    o # None /\ Len(o[1]) = 1 /\ o[1][1] \in Numerals /\ NumeralValue(o[1][1]) <= 65535

\* C15: a vmess link over a JSON object decodes exactly when add, port (a
\* numeric string of the 16-bit range) and id are present; then server =
\* add, port = the number, uuid = id, name = ps or "VMess Node", alter-id =
\* aid or 0, cipher "auto", network = net or "tcp", TLS only for tls = "tls",
\* ws_opts only for net = "ws".
C15_VmessFields ==
    (pc = "done" /\ link[1] = "vmess://") =>
        IF ~VmessCarriesText THEN link = << "vmess://", "abc" >> => decoded = None
        ELSE LET t == VmessText
             IN  /\ decoded # None
                        <=> (MemberText(t, "add") # None /\ IsPortText(MemberText(t, "port"))
                                 /\ MemberText(t, "id") # None)
                 /\ decoded # None =>
                        /\ decoded[1].type = "vmess"
                        /\ decoded[1].server = MemberText(t, "add")[1]
                        /\ decoded[1].port = NumeralValue(MemberText(t, "port")[1][1])
                        /\ decoded[1].uuid = MemberText(t, "id")[1]
                        /\ decoded[1].name = IF MemberText(t, "ps") = None
                                             THEN << "VMess Node" >>
                                             ELSE MemberText(t, "ps")[1]
                        /\ MemberText(t, "aid") = None => decoded[1].alter_id = 0
                        /\ MemberText(t, "aid") = Some(<< "80" >>)
                               => decoded[1].alter_id = 80
                        /\ decoded[1].cipher = << "auto" >>
                        /\ decoded[1].network = Some(IF MemberText(t, "net") = None
                                                     THEN << "tcp" >>
                                                     ELSE MemberText(t, "net")[1])
                        /\ decoded[1].tls = Some(TRUE)
                               <=> MemberText(t, "tls") = Some(<< "tls" >>)
                        /\ decoded[1].tls # Some(TRUE) => decoded[1].tls = None
                        /\ decoded[1].ws_opts # None
                               <=> MemberText(t, "net") = Some(<< "ws" >>)

\* C15 witness: a decoded vmess link without ps, with aid, tls and net = ws.
C15_Witness ==
    /\ pc = "done" /\ link[1] = "vmess://" /\ decoded # None
    /\ decoded[1].name = << "VMess Node" >>
    /\ decoded[1].alter_id = 80
    /\ decoded[1].tls = Some(TRUE)
    /\ decoded[1].ws_opts # None
    /\ decoded[1].server = << "h" >> /\ decoded[1].port = 443

\* The userinfo of a URI-style link as written: what stands between the
\* scheme prefix and the "@", nothing when there is no "@".
LinkUserinfo(l) == IF IndexOf(l, "@") = 0 THEN << >> ELSE SubSeq(l, 2, IndexOf(l, "@") - 1)

\* C12: a tuic link's userinfo U:P gives uuid U and password P, cut at the
\* first ":"; a userinfo without ":" is the uuid and the password is empty.
C12_TuicCredentials ==
    (pc = "done" /\ link[1] = "tuic://" /\ decoded # None) =>
        LET userinfo == LinkUserinfo(link)
            colon == IndexOf(userinfo, ":")
        IN  /\ decoded[1].uuid = IF colon = 0 THEN userinfo ELSE Before(userinfo, colon)
            /\ decoded[1].password = IF colon = 0 THEN << >> ELSE After(userinfo, colon)

----------------------------------------------------------------------------
(* Properties of parse_wireguard (specification SpecWg)                    *)

\* The name of the last [section] header before line i, << >> without one.
SectionAt(c, i) ==
    LET headers == {j \in 1..(i - 1) : c[j][1] = "["}
    IN  IF headers = {} THEN << >>
        ELSE << c[CHOOSE j \in headers : \A h \in headers : h <= j][2] >>

\* The block holds a `key = value` line under the section.
BlockHas(c, section, key) ==
    \E i \in 1..Len(c) : c[i][1] = key /\ SectionAt(c, i) = << section >>

\* C10: a proxy is returned exactly when the block holds PrivateKey and an
\* Address under [Interface] and PublicKey and Endpoint under [Peer],
\* whatever the address family of the Address entries.
C10_FourRequiredFields ==
    pc = "done" =>
        (wg # None <=>
            /\ BlockHas(content, "Interface", "PrivateKey")
            /\ BlockHas(content, "Interface", "Address")
            /\ BlockHas(content, "Peer", "PublicKey")
            /\ BlockHas(content, "Peer", "Endpoint"))

\* The trimmed value of a `key = value` line: what follows its first "=".
LineValue(line) == Trim(After(line, IndexOf(line, "=")))

\* The lines of the block that give key under the section, in order.
KeyLines(c, section, key) ==
    SelectSeq([i \in 1..Len(c) |-> IF c[i][1] = key /\ SectionAt(c, i) = << section >>
                                   THEN c[i] ELSE << >>],
              LAMBDA l : l # << >>)

\* The trimmed items of a comma-separated list; the empty text has none.
ListItems(value) ==
    IF value = << >> THEN << >>
    ELSE [i \in 1..Len(Split(value, ",")) |-> Trim(Split(value, ",")[i])]

\* C11: a decoded block's allowed_ips is the trimmed comma-separated
\* AllowedIPs list of [Peer] when it has entries, and ["0.0.0.0/0", "::/0"]
\* when the key is absent or present with an empty value.
C11_AllowedIpsOrDefault ==
    (pc = "done" /\ wg # None) =>
        LET given == KeyLines(content, "Peer", "AllowedIPs")
            items == IF given = << >> THEN << >>
                     ELSE ListItems(LineValue(given[Len(given)]))
        IN  wg[1].allowed_ips =
                IF items = << >>
                THEN << << "0.0.0.0", "/", "0" >>, << ":", ":", "/", "0" >> >>
                ELSE items

\* The server and port the Endpoint text stands for: [addr] or [addr]:port
\* for a bracketed literal, host or host:port otherwise.
EndpointMeaning(e) ==
    LET close == IndexOf(e, "]")
        bracketed == StartsWith(e, "[") /\ close # 0
        host == IF bracketed THEN SubSeq(e, 2, close - 1)
                ELSE IF IndexOf(e, ":") = 0 THEN e
                ELSE Before(e, IndexOf(e, ":"))
        rest == IF bracketed THEN After(e, close)
                ELSE IF IndexOf(e, ":") = 0 THEN << >>
                ELSE SubSeq(e, IndexOf(e, ":"), Len(e))
        port == IF Len(rest) = 2 /\ rest[1] = ":" /\ rest[2] \in Numerals
                   /\ NumeralValue(rest[2]) <= 65535
                THEN NumeralValue(rest[2])
                ELSE 51820
    IN  << host, port >>

\* C16: the server is the host of the Endpoint (a bracketed IPv6 literal
\* without its brackets, with or without a port) and the port is the parsed
\* number, 51820 when it is missing or no 16-bit number.
C16_EndpointServerPort ==
    (pc = "done" /\ wg # None) =>
        LET given == KeyLines(content, "Peer", "Endpoint")
        IN  << wg[1].server, wg[1].port >>
                = EndpointMeaning(LineValue(given[Len(given)]))

----------------------------------------------------------------------------
(* Properties of the line filter (specification SpecWgFilter): the block  *)
(* is junk, [Interface], junk, PrivateKey, Address, junk, [Peer],          *)
(* PublicKey, Endpoint.                                                    *)

\* C17 as stated: a line that does not hold exactly one "=" sets no field,
\* so a block whose only PrivateKey or PublicKey line holds two or more
\* yields no proxy.
C17_ExactlyOneEquals ==
    (pc = "done" /\ (Count(content[4], "=") # 1 \/ Count(content[8], "=") # 1)) =>
        wg = None

\* C17, amended: blank lines and lines starting with "#" change no field
\* and not the section, a line without "=" is ignored, and a line with one
\* or more "=" is cut at its first "=", the value keeping the later ones.
C17_FilterKeepsFields ==
    pc = "done" =>
        /\ wg # None
        /\ wg[1].private_key = After(content[4], IndexOf(content[4], "priv") - 1)
        /\ wg[1].public_key = After(content[8], IndexOf(content[8], "pub") - 1)
        /\ wg[1].ip = << "10.0.0.2" >> /\ wg[1].ipv6 = None
        /\ wg[1].server = << "h" >> /\ wg[1].port = 51820
        /\ wg[1].mtu = None /\ wg[1].pre_shared_key = None
        /\ wg[1].allowed_ips = << << "0.0.0.0", "/", "0" >>, << ":", ":", "/", "0" >> >>

\* C17 witness: comments that look like a key and like a header are
\* dropped and both keys keep their "=" padding.
C17_Witness ==
    /\ pc = "done" /\ wg # None
    /\ content[3] = << "#", "PrivateKey", " ", "=", " ", "other" >>
    /\ content[6] = << " ", "#", "[", "Peer", "]" >>
    /\ wg[1].private_key = << "priv", "=", "=" >>
    /\ wg[1].public_key = << "pub", "=" >>

----------------------------------------------------------------------------
(* Properties of the section machine (specification SpecWgSection)         *)

\* The values, in order, of the `key = value` lines that stand under the
\* section (the last header before them, letter case apart) and whose key,
\* trimmed and letter case apart, is key.
Effective(c, section, key) ==
    LET hit(i) == /\ c[i] # << >> /\ c[i][1] # "["
                  /\ IndexOf(c[i], "=") # 0
                  /\ ToLowercase(SectionAt(c, i)) = << section >>
                  /\ ToLowercase(Trim(Before(c[i], IndexOf(c[i], "=")))) = << key >>
        marked == [i \in 1..Len(c) |-> IF hit(i) THEN << LineValue(c[i]) >> ELSE << >>]
    IN  [i \in 1..Len(SelectSeq(marked, LAMBDA m : m # << >>)) |->
            SelectSeq(marked, LAMBDA m : m # << >>)[i][1]]

LastOf(values) == IF values = << >> THEN None ELSE Some(values[Len(values)])

RECURSIVE Flatten(_)
Flatten(seqs) == IF seqs = << >> THEN << >> ELSE Head(seqs) \o Flatten(Tail(seqs))

\* The addresses of all Address lines in order, without their CIDR suffix.
AddressParts(c) ==
    LET lists == Effective(c, "interface", "address")
        items == Flatten([i \in 1..Len(lists) |-> Split(lists[i], ",")])
    IN  [i \in 1..Len(items) |-> Split(Trim(items[i]), "/")[1]]

\* C18: a key takes effect only under the section named by the last header
\* before it: PrivateKey, Address, MTU under Interface, PublicKey, Endpoint,
\* AllowedIPs, PresharedKey under Peer, nothing before a header or under
\* another section; keys match in any letter case, values are trimmed, and
\* the last Address item of each family over all lines wins.
C18_SectionMachine ==
    pc = "done" =>
        LET sk == LastOf(Effective(content, "interface", "privatekey"))
            mtu == LastOf(Effective(content, "interface", "mtu"))
            ip4 == LastOf(SelectSeq(AddressParts(content), LAMBDA a : ~Contains(a, ":")))
            ip6 == LastOf(SelectSeq(AddressParts(content), LAMBDA a : Contains(a, ":")))
            pk == LastOf(Effective(content, "peer", "publickey"))
            ep == LastOf(Effective(content, "peer", "endpoint"))
            psk == LastOf(Effective(content, "peer", "presharedkey"))
            ips == LastOf(Effective(content, "peer", "allowedips"))
        IN  /\ wg # None <=> (sk # None /\ ip4 # None /\ pk # None /\ ep # None)
            /\ wg # None =>
                   /\ wg[1].private_key = sk[1]
                   /\ wg[1].ip = ip4[1]
                   /\ wg[1].ipv6 = ip6
                   /\ wg[1].mtu = IF mtu = Some(<< "1420" >>) THEN Some(1420) ELSE None
                   /\ wg[1].public_key = pk[1]
                   /\ << wg[1].server, wg[1].port >> = EndpointMeaning(ep[1])
                   /\ wg[1].pre_shared_key = psk
                   /\ wg[1].allowed_ips =
                          IF ips = None
                          THEN << << "0.0.0.0", "/", "0" >>, << ":", ":", "/", "0" >> >>
                          ELSE ListItems(ips[1])

\* C18 witness: keys before the first header are dropped, a section of
\* another name holds keys, and the later Address line gives the IPv4
\* address while the earlier one gives the IPv6 address.
C18_Witness ==
    /\ pc = "done" /\ wg # None
    /\ content[1] = << "PrivateKey", " ", "=", " ", "early" >>
    /\ \E i \in 1..Len(content) :
           /\ content[i] = << "PrivateKey", " ", "=", " ", "priv2" >>
           /\ SectionAt(content, i) = << "Other" >>
    /\ wg[1].private_key = << "priv" >>
    /\ wg[1].ip = << "10.0.0.3" >>
    /\ wg[1].ipv6 = Some(<< "fd00", ":", ":", "1" >>)
    /\ wg[1].mtu = Some(1420)
    /\ wg[1].pre_shared_key = Some(<< "psk" >>)

====
